---- MODULE Spec2Model ----
(***************************************************************************)
(* Model of snakemake/deployment/spack.py: the Env handle (hash, path,     *)
(* create) and the on-disk protocol of a spack environment directory       *)
(* (env_setup_start / spack.yaml / env_setup_done).                        *)
(*                                                                         *)
(* The filesystem is one set of paths, fs.  A path is a tuple:             *)
(*   <<dir, name>>        a directory entry below dir (an environment      *)
(*                        directory below env_dir, a file below tmpdir)    *)
(*   <<dir, name, file>>  a file inside the directory <<dir, name>>        *)
(* dir and name are sequences of small integers (bytes / hex digits).      *)
(* Every statement of Env.create that reads or writes the filesystem is    *)
(* one atomic step of a process.                                           *)
(***************************************************************************)
EXTENDS Integers, Sequences, FiniteSets, TLC

\* ---------------------------------------------------------------- bounds
\* calls of create() one process makes
MaxCalls == 3
\* calls of create() the concurrent processes make in total
MaxConcCalls == 2
\* calls of create() and create_archive() one process makes
MaxArchiveCalls == 2

\* calls of create() one process makes when every step it can take is taken
MaxLiveCalls == 2

\* reads of Env.hash one caller makes on a handle
MaxHashReads == 2
\* calls of create() the process makes while directories are deleted from outside
MaxEnvCalls == 2
\* explicit deletions of an environment directory from outside
MaxRemovals == 1

\* ------------------------------------------------------------- constants
\* hashlib.md5().hexdigest() is 32 hex digits
DigestLen == 32
\* self.hash[:8]
PrefixLen == 8

Procs == {1, 2}
\* outputs the external tool may print (captured stdout+stderr)
Outputs == {"spack: ok", "spack: error"}

None == <<>>

\* workflow.persistence.spack_env_path, "/e" as bytes
env_dir == <<47, 101>>
\* tempfile.gettempdir(), "/t"
tmpdir == <<47, 116>>
\* directory of a local specification file, "/w"
workdir == <<47, 119>>
\* bytes of the specification file
content == <<122>>
\* bytes of the specification file after it was edited at its source
content2 == <<123>>
\* real path of env_dir after the working directory was moved, "/m"
moved_dir == <<47, 109>>

VARIABLES
    fs,             \* the filesystem: set of existing paths
    file_is_local,  \* self.file is a LocalSourceFile and not a LocalGitFile
    hash_cache,     \* self._hash of each process's handle (None until read)
    pc,             \* position of each process inside create()
    dryrun,         \* argument of the running call
    env_file,       \* local variable env_file
    tmp_file,       \* local variable tmp_file
    env_path,       \* local variable env_path
    out,            \* local variable out (output of the last successful command)
    e_output,       \* e.output of the caught CalledProcessError
    spack_create,   \* number of "spack env create" invocations so far
    spack_install,  \* number of "spack install" invocations so far
    emitted,        \* what the external tool printed in its last invocation by p
    done_writers,   \* processes that touched env_setup_done
    calls_left,     \* calls of create() each process may still start
    removed,        \* number of explicit external deletions so far
    fs0,            \* filesystem when the running call started
    tools0,         \* <<spack_create, spack_install>> when the running call started
    hist,           \* per process, the finished calls in order
    spack_available,\* the spack executable is found by the shell
    disk_content,   \* bytes of the specification file as they are at its source now
    real_dir,       \* what os.path.realpath(env_dir) gives now
    content_cache,  \* self._content of each process's handle (None until read)
    hashed_dir,     \* the real path each handle put into its hash (None until read)
    hash_reads,     \* per handle, what its reads of Env.hash from outside create()
                    \* returned, with the state of the disk at each read
    eq_args,        \* the two operands of an evaluation of Env.__eq__
    eq_result       \* <<result>> of that evaluation (None until evaluated)

vars == <<fs, file_is_local, hash_cache, pc, dryrun, env_file, tmp_file, env_path,
          out, e_output, emitted, spack_create, spack_install, done_writers,
          calls_left, removed, fs0, tools0, hist, spack_available, disk_content,
          real_dir, content_cache, hashed_dir, hash_reads, eq_args, eq_result>>

\* ------------------------------------------------------- pure functions

RECURSIVE SumBytes(_, _)
SumBytes(data, i) ==
    IF data = <<>> THEN 0 ELSE (Head(data) * i) + SumBytes(Tail(data), i + 1)

\* stand-in for md5: a digest of DigestLen hex digits depending on every byte
md5_hexdigest(data) ==
    [i \in 1..DigestLen |-> (SumBytes(data, i) + i * i) % 16]

\* os.path.realpath
realpath(d) == IF d = env_dir THEN real_dir ELSE d

\* EnvBase.content: read from the source on the first read, then cached
content_of(p) ==
    IF content_cache[p] = None THEN disk_content ELSE content_cache[p]

\* Env.hash without self._hash: computed on every read
hash_nocache(p) == md5_hexdigest(realpath(env_dir) \o content_of(p))

\* Env.hash, lines 65-77: computed on the first read, then cached
hash(p) ==
    IF hash_cache[p] = None
    THEN md5_hexdigest(realpath(env_dir) \o content_of(p))
    ELSE hash_cache[p]

\* os.path.join(env_dir, h)
get_path(h) == <<env_dir, h>>

\* os.path.join(env_path, name)
join(d, name) == <<d[1], d[2], name>>

\* os.path.exists
exists(path, files) == path \in files

hash_candidates(p) == <<SubSeq(hash(p), 1, PrefixLen), hash(p)>>

\* Env.path, lines 79-94
path(p) ==
    LET cand == hash_candidates(p)
        ex   == [i \in 1..2 |-> exists(get_path(cand[i]), fs)]
    IN  IF ex[2] \/ ~ex[1]
        THEN get_path(cand[2])
        ELSE get_path(cand[1])

START == "env_setup_start"
DONE == "env_setup_done"
YAML == "spack.yaml"
TOOLFILE == ".spack-env"

\* everything at or below directory d
tree(d, files) ==
    {f \in files : Len(f) >= 2 /\ f[1] = d[1] /\ f[2] = d[2]}

\* files inside directory d
entries(d, files) == {f \in tree(d, files) : Len(f) = 3}

\* EnvBase.check_broken_environment's condition: start flag without done flag
is_broken(d, files) ==
    exists(join(d, START), files) /\ ~exists(join(d, DONE), files)

is_complete(d, files) ==
    exists(d, files) /\ exists(join(d, START), files) /\ exists(join(d, DONE), files)

is_absent(d, files) == tree(d, files) = {}

\* the hash of a handle made while env_dir is its own real path and the
\* specification file is unedited
FullHash == md5_hexdigest(env_dir \o content)
FullPath == get_path(FullHash)
ShortPath == get_path(SubSeq(FullHash, 1, PrefixLen))
LocalFile == <<workdir, <<1>>>>

\* tempfile.NamedTemporaryFile: a fresh name per process and call
tmp_name(p) == <<tmpdir, <<p, Len(hist[p]) + 1>>>>

\* the specification sources handles are made of
SourceFiles == {LocalFile, <<workdir, <<2>>>>}

\* Env objects: the fields of Env.__init__, lines 48-59, and the content of
\* the file
Handles ==
    [kind : {"Env"}, file : SourceFiles, content : {content, content2},
     env_dir : {env_dir, moved_dir}]

\* objects of another class carrying the same attributes
NonHandles ==
    [kind : {"object"}, file : SourceFiles, content : {content, content2},
     env_dir : {env_dir, moved_dir}]

\* isinstance(other, Env)
isinstance_Env(other) == other.kind = "Env"

\* the equality a handle would have if it compared what the files contain
Env_eq_content(self, other) ==
    IF isinstance_Env(other) THEN self.content = other.content ELSE FALSE

\* Env.__eq__, lines 198-201
Env_eq(self, other) ==
    IF isinstance_Env(other) THEN self.file = other.file ELSE FALSE

\* the identity hash of a handle object, lines 65-77, its directory being its own
\* real path
hash_of(h) == md5_hexdigest(h.env_dir \o h.content)

\* ------------------------------------------------------------------ Init

DirStates == {"absent", "bare", "broken", "complete"}

initial_tree(d, st) ==
    CASE st = "absent"   -> {}
      [] st = "bare"     -> {d}
      [] st = "broken"   -> {d, join(d, START), join(d, YAML)}
      [] st = "complete" -> {d, join(d, START), join(d, YAML), join(d, TOOLFILE),
                             join(d, DONE)}

InitState ==
    /\ file_is_local \in BOOLEAN
    /\ \E s1 \in DirStates, s2 \in DirStates :
          fs = initial_tree(ShortPath, s1) \cup initial_tree(FullPath, s2)
               \cup (IF file_is_local THEN {LocalFile} ELSE {})
    /\ hash_cache = [p \in Procs |-> None]
    /\ pc = [p \in Procs |-> "idle"]
    /\ dryrun = [p \in Procs |-> FALSE]
    /\ env_file = [p \in Procs |-> None]
    /\ tmp_file = [p \in Procs |-> None]
    /\ env_path = [p \in Procs |-> None]
    /\ out = [p \in Procs |-> ""]
    /\ e_output = [p \in Procs |-> ""]
    /\ emitted = [p \in Procs |-> ""]
    /\ spack_create = 0
    /\ spack_install = 0
    /\ done_writers = {}
    /\ removed = 0
    /\ fs0 = [p \in Procs |-> {}]
    /\ tools0 = [p \in Procs |-> <<0, 0>>]
    /\ hist = [p \in Procs |-> <<>>]
    /\ spack_available \in BOOLEAN
    /\ disk_content = content
    /\ real_dir = env_dir
    /\ content_cache = [p \in Procs |-> None]
    /\ hashed_dir = [p \in Procs |-> None]
    /\ hash_reads = [p \in Procs |-> <<>>]

\* no comparison of handles is under way
InitCommon ==
    /\ InitState
    /\ eq_args = None
    /\ eq_result = None

\* one process calls create() up to MaxCalls times
Init ==
    /\ InitCommon
    /\ calls_left = [p \in Procs |-> IF p = 1 THEN MaxCalls ELSE 0]

\* one process calls create() up to MaxEnvCalls times
InitEnv ==
    /\ InitCommon
    /\ calls_left = [p \in Procs |-> IF p = 1 THEN MaxEnvCalls ELSE 0]

\* one process calls create() and create_archive() MaxArchiveCalls times in all
InitArchive ==
    /\ InitCommon
    /\ calls_left = [p \in Procs |-> IF p = 1 THEN MaxArchiveCalls ELSE 0]

\* a handle is about to be compared with a value; no call of create()
InitEq ==
    /\ InitState
    /\ calls_left = [p \in Procs |-> 0]
    /\ eq_args \in Handles \X (Handles \cup NonHandles)
    /\ eq_result = None

\* one process calls create() MaxLiveCalls times
InitLive ==
    /\ InitCommon
    /\ calls_left = [p \in Procs |-> IF p = 1 THEN MaxLiveCalls ELSE 0]

\* no call of create(): the handles are only asked for their hash
InitHash ==
    /\ InitCommon
    /\ calls_left = [p \in Procs |-> 0]

\* the processes call create() MaxConcCalls times in total
InitConc ==
    /\ InitCommon
    /\ calls_left \in {c \in [Procs -> 0..MaxConcCalls] : c[1] + c[2] = MaxConcCalls}

\* ---------------------------------------------------------- end of a call

\* the call of p ends (return, raise or interrupt): its record is appended to
\* hist[p] and the locals of the call are dropped
finish(p, kind, at, output, files) ==
    /\ pc' = [pc EXCEPT ![p] = "idle"]
    /\ hist' = [hist EXCEPT ![p] = Append(@,
                  [dryrun |-> dryrun[p], kind |-> kind, path |-> env_path[p],
                   at |-> at, output |-> output, emitted |-> emitted[p],
                   tmp |-> tmp_file[p],
                   fs0 |-> fs0[p], fs1 |-> files,
                   tools0 |-> tools0[p],
                   tools1 |-> <<spack_create, spack_install>>,
                   removed |-> removed])]
    /\ dryrun' = [dryrun EXCEPT ![p] = FALSE]
    /\ env_file' = [env_file EXCEPT ![p] = None]
    /\ tmp_file' = [tmp_file EXCEPT ![p] = None]
    /\ env_path' = [env_path EXCEPT ![p] = None]
    /\ out' = [out EXCEPT ![p] = ""]
    /\ e_output' = [e_output EXCEPT ![p] = ""]
    /\ emitted' = [emitted EXCEPT ![p] = ""]
    /\ fs0' = [fs0 EXCEPT ![p] = {}]
    /\ tools0' = [tools0 EXCEPT ![p] = <<0, 0>>]

goto(p, label) == pc' = [pc EXCEPT ![p] = label]

\* what no step of create() changes
fixed == <<file_is_local, spack_available, disk_content, real_dir, hash_reads, eq_args,
           eq_result>>
caches == <<hash_cache, content_cache, hashed_dir>>

frame == <<dryrun, env_file, tmp_file, env_path, out, e_output, emitted, fs0, tools0,
           hist>>
tools == <<spack_create, spack_install, calls_left>>

\* --------------------------------------------------------- Env.create

\* lines 106-124: the call starts; a specification that is not a plain local
\* file is written to a NamedTemporaryFile(delete=False)
Start(p, d) ==
    /\ pc[p] = "idle"
    /\ calls_left[p] > 0
    /\ calls_left' = [calls_left EXCEPT ![p] = @ - 1]
    /\ dryrun' = [dryrun EXCEPT ![p] = d]
    /\ IF ~file_is_local
       THEN /\ fs' = fs \cup {tmp_name(p)}
            /\ content_cache' = [content_cache EXCEPT ![p] = content_of(p)]
            /\ env_file' = [env_file EXCEPT ![p] = tmp_name(p)]
            /\ tmp_file' = [tmp_file EXCEPT ![p] = tmp_name(p)]
       ELSE /\ fs' = fs
            /\ UNCHANGED content_cache
            /\ env_file' = [env_file EXCEPT ![p] = LocalFile]
            /\ tmp_file' = [tmp_file EXCEPT ![p] = None]
    /\ fs0' = [fs0 EXCEPT ![p] = fs]
    /\ tools0' = [tools0 EXCEPT ![p] = <<spack_create, spack_install>>]
    /\ goto(p, "path")
    /\ UNCHANGED <<fixed, hash_cache, hashed_dir, env_path, out, e_output, emitted,
                   spack_create, spack_install, done_writers, removed, hist>>

\* ResolvePath with the call of check_broken_environment left out
ResolvePath_nocheck(p) ==
    /\ pc[p] = "path"
    /\ hash_cache' = [hash_cache EXCEPT ![p] = hash(p)]
    /\ hashed_dir' = [hashed_dir EXCEPT ![p] =
                          IF hash_cache[p] = None THEN realpath(env_dir) ELSE @]
    /\ content_cache' = [content_cache EXCEPT ![p] = content_of(p)]
    /\ env_path' = [env_path EXCEPT ![p] = path(p)]
    /\ goto(p, "exists")
    /\ UNCHANGED <<fs, fixed, dryrun, env_file, tmp_file, out, e_output,
                   emitted, tools, done_writers, removed, fs0, tools0, hist>>

\* ResolvePath that keeps the path of the handle's earlier call (a cached
\* self._path) instead of asking the filesystem again
ResolvePath_cached(p) ==
    /\ pc[p] = "path"
    /\ hash_cache' = [hash_cache EXCEPT ![p] = hash(p)]
    /\ hashed_dir' = [hashed_dir EXCEPT ![p] =
                          IF hash_cache[p] = None THEN realpath(env_dir) ELSE @]
    /\ content_cache' = [content_cache EXCEPT ![p] = content_of(p)]
    /\ env_path' = [env_path EXCEPT ![p] =
                        IF Len(hist[p]) > 0 /\ hist[p][1].path # None
                        THEN hist[p][1].path
                        ELSE path(p)]
    /\ goto(p, "check_broken")
    /\ UNCHANGED <<fs, fixed, dryrun, env_file, tmp_file, out, e_output,
                   emitted, tools, done_writers, removed, fs0, tools0, hist>>

\* line 126: env_path = self.path (reads self.hash, which caches)
ResolvePath(p) ==
    /\ pc[p] = "path"
    /\ hash_cache' = [hash_cache EXCEPT ![p] = hash(p)]
    /\ hashed_dir' = [hashed_dir EXCEPT ![p] =
                          IF hash_cache[p] = None THEN realpath(env_dir) ELSE @]
    /\ content_cache' = [content_cache EXCEPT ![p] = content_of(p)]
    /\ env_path' = [env_path EXCEPT ![p] = path(p)]
    /\ goto(p, "check_broken")
    /\ UNCHANGED <<fs, fixed, dryrun, env_file, tmp_file, out, e_output,
                   emitted, tools, done_writers, removed, fs0, tools0, hist>>

\* line 129: self.check_broken_environment(env_path, dryrun), of EnvBase:
\* a start flag without a done flag fails the call
CheckBrokenEnvironment(p) ==
    /\ pc[p] = "check_broken"
    /\ IF is_broken(env_path[p], fs)
       THEN finish(p, "BrokenEnvironment", "check_broken", "", fs)
       ELSE goto(p, "exists") /\ UNCHANGED frame
    /\ UNCHANGED <<fs, fixed, caches, tools, done_writers, removed>>

\* ExistsCheck that does not look at dryrun
ExistsCheck_nodry(p) ==
    /\ pc[p] = "exists"
    /\ IF ~exists(env_path[p], fs)
       THEN goto(p, "makedirs") /\ UNCHANGED frame
       ELSE goto(p, "cleanup") /\ UNCHANGED frame
    /\ UNCHANGED <<fs, fixed, caches, tools, done_writers, removed>>

\* lines 132-143: the existence short-circuit and the dry-run return
ExistsCheck(p) ==
    /\ pc[p] = "exists"
    /\ IF ~exists(env_path[p], fs)
       THEN IF dryrun[p]
            THEN finish(p, "returned", "exists", "", fs)
            ELSE goto(p, "makedirs") /\ UNCHANGED frame
       ELSE goto(p, "cleanup") /\ UNCHANGED frame
    /\ UNCHANGED <<fs, fixed, caches, tools, done_writers, removed>>

\* line 147: os.makedirs(env_path, exist_ok=True)
Makedirs(p) ==
    /\ pc[p] = "makedirs"
    /\ fs' = fs \cup {env_path[p]}
    /\ goto(p, "touch_start")
    /\ UNCHANGED <<fixed, caches, tools, done_writers, removed>>
    /\ UNCHANGED frame

\* TouchStart that does not write the start flag
TouchStart_nostart(p, ok) ==
    /\ pc[p] = "touch_start"
    /\ fs' = fs
    /\ IF ok /\ exists(env_path[p], fs)
       THEN goto(p, "copyfile") /\ UNCHANGED frame
       ELSE finish(p, "OSError", "touch_start", "", fs)
    /\ UNCHANGED <<fixed, caches, tools, done_writers, removed>>

\* line 148: Path(...env_setup_start).touch(); an OSError is not caught by
\* the except clause of line 184 and leaves create() as it is
TouchStart(p, ok) ==
    /\ pc[p] = "touch_start"
    /\ IF ok /\ exists(env_path[p], fs)
       THEN /\ fs' = fs \cup {join(env_path[p], START)}
            /\ goto(p, "copyfile")
            /\ UNCHANGED frame
       ELSE /\ fs' = fs
            /\ finish(p, "OSError", "touch_start", "", fs)
    /\ UNCHANGED <<fixed, caches, tools, done_writers, removed>>

\* lines 152-153: shutil.copyfile(env_file, target_env_file)
CopyFile(p, ok) ==
    /\ pc[p] = "copyfile"
    /\ IF ok /\ exists(env_path[p], fs) /\ exists(env_file[p], fs)
       THEN /\ fs' = fs \cup {join(env_path[p], YAML)}
            /\ goto(p, "spack_create")
            /\ UNCHANGED frame
       ELSE /\ fs' = fs
            /\ finish(p, "OSError", "copyfile", "", fs)
    /\ UNCHANGED <<fixed, caches, tools, done_writers, removed>>

\* Spack._check, lines 208-228: "type spack" in the shell; what Spack() raises
\* (None when the command is found).  Env.create does not construct a Spack.
Spack_check ==
    IF spack_available THEN None ELSE <<"CreateSpackEnvironmentException">>

\* what a successful spack command leaves on disk: its files below env_path
\* (spack creates the directory when it is missing)
tool_files(d) == {d, join(d, TOOLFILE)}

\* ShellCreate that goes on to the installation whatever the exit status
ShellCreate_ignore_rc(p, rc, o) ==
    /\ pc[p] = "spack_create"
    /\ rc = 0 => spack_available
    /\ spack_create' = spack_create + 1
    /\ emitted' = [emitted EXCEPT ![p] = o]
    /\ fs' = IF rc = 0 THEN fs \cup tool_files(env_path[p]) ELSE fs
    /\ out' = [out EXCEPT ![p] = IF rc = 0 THEN o ELSE @]
    /\ goto(p, "spack_install")
    /\ UNCHANGED <<fixed, caches, dryrun, env_file, tmp_file, env_path, e_output,
                   spack_install, done_writers, calls_left, removed, fs0, tools0,
                   hist>>

\* lines 170-174, cmd = create: shell.check_output("spack env create --dir ...")
\* rc is the exit status, o the captured output
ShellCreate(p, rc, o) ==
    /\ pc[p] = "spack_create"
    /\ rc = 0 => spack_available
    /\ spack_create' = spack_create + 1
    /\ emitted' = [emitted EXCEPT ![p] = o]
    /\ IF rc = 0
       THEN /\ fs' = fs \cup tool_files(env_path[p])
            /\ out' = [out EXCEPT ![p] = o]
            /\ goto(p, "spack_install")
            /\ UNCHANGED e_output
       ELSE /\ fs' = fs
            /\ e_output' = [e_output EXCEPT ![p] = o]
            /\ goto(p, "rmtree")
            /\ UNCHANGED out
    /\ UNCHANGED <<fixed, caches, dryrun, env_file, tmp_file, env_path,
                   spack_install, done_writers, calls_left, removed, fs0, tools0,
                   hist>>

\* lines 170-174, cmd = activate: "eval `spack env activate ...`; spack install"
ShellInstall(p, rc, o) ==
    /\ pc[p] = "spack_install"
    /\ rc = 0 => spack_available
    /\ spack_install' = spack_install + 1
    /\ emitted' = [emitted EXCEPT ![p] = o]
    /\ IF rc = 0
       THEN /\ fs' = fs \cup tool_files(env_path[p])
            /\ out' = [out EXCEPT ![p] = o]
            /\ goto(p, "touch_done")
            /\ UNCHANGED e_output
       ELSE /\ fs' = fs
            /\ e_output' = [e_output EXCEPT ![p] = o]
            /\ goto(p, "rmtree")
            /\ UNCHANGED out
    /\ UNCHANGED <<fixed, caches, dryrun, env_file, tmp_file, env_path,
                   spack_create, done_writers, calls_left, removed, fs0, tools0,
                   hist>>

\* TouchDone that forgets the done flag
TouchDone_skip(p, ok) ==
    /\ pc[p] = "touch_done"
    /\ fs' = fs
    /\ UNCHANGED done_writers
    /\ IF ok /\ exists(env_path[p], fs)
       THEN goto(p, "cleanup") /\ UNCHANGED frame
       ELSE finish(p, "OSError", "touch_done", "", fs)
    /\ UNCHANGED <<fixed, caches, tools, removed>>

\* line 177: Path(...env_setup_done).touch()
TouchDone(p, ok) ==
    /\ pc[p] = "touch_done"
    /\ IF ok /\ exists(env_path[p], fs)
       THEN /\ fs' = fs \cup {join(env_path[p], DONE)}
            /\ done_writers' = done_writers \cup {p}
            /\ goto(p, "cleanup")
            /\ UNCHANGED frame
       ELSE /\ fs' = fs
            /\ UNCHANGED done_writers
            /\ finish(p, "OSError", "touch_done", "", fs)
    /\ UNCHANGED <<fixed, caches, tools, removed>>

\* line 186, first half of shutil.rmtree(env_path, ignore_errors=True):
\* the entries found in the directory are unlinked
RmtreeUnlink(p) ==
    /\ pc[p] = "rmtree"
    /\ fs' = fs \ entries(env_path[p], fs)
    /\ goto(p, "rmdir")
    /\ UNCHANGED <<fixed, caches, tools, done_writers, removed>>
    /\ UNCHANGED frame

\* RmtreeRmdir that leaves the emptied directory behind
RmtreeRmdir_keep(p) ==
    /\ pc[p] = "rmdir"
    /\ fs' = fs
    /\ finish(p, "CreateSpackEnvironmentException", "rmdir", e_output[p], fs')
    /\ UNCHANGED <<fixed, caches, tools, done_writers, removed>>

\* line 186, second half: rmdir, whose failure on a directory that is not
\* empty any more is ignored; lines 187-190: the exception is raised
RmtreeRmdir(p) ==
    /\ pc[p] = "rmdir"
    /\ fs' = IF entries(env_path[p], fs) = {} THEN fs \ {env_path[p]} ELSE fs
    /\ finish(p, "CreateSpackEnvironmentException", "rmdir", e_output[p], fs')
    /\ UNCHANGED <<fixed, caches, tools, done_writers, removed>>

\* lines 192-196: the temporary file is removed and env_path returned
Cleanup(p) ==
    /\ pc[p] = "cleanup"
    /\ fs' = IF tmp_file[p] # None THEN fs \ {tmp_file[p]} ELSE fs
    /\ finish(p, "returned", "cleanup", "", fs')
    /\ UNCHANGED <<fixed, caches, tools, done_writers, removed>>

\* the process is interrupted (killed, crash) inside create(); the next call
\* is made by a new process on a new handle
Interrupt(p) ==
    /\ pc[p] # "idle"
    /\ finish(p, "interrupted", pc[p], "", fs)
    /\ hash_cache' = [hash_cache EXCEPT ![p] = None]
    /\ hashed_dir' = [hashed_dir EXCEPT ![p] = None]
    /\ content_cache' = [content_cache EXCEPT ![p] = None]
    /\ UNCHANGED <<fs, fixed, tools, done_writers, removed>>

\* an environment directory is deleted from outside (explicit repair)
ExternalRemove(d) ==
    /\ exists(d, fs)
    /\ removed < MaxRemovals
    /\ fs' = fs \ tree(d, fs)
    /\ removed' = removed + 1
    /\ UNCHANGED <<fixed, caches, pc, tools, done_writers>>
    /\ UNCHANGED frame

\* the end of a call of create_archive()
archived(p, kind, files) ==
    /\ pc[p] = "idle"
    /\ calls_left[p] > 0
    /\ calls_left' = [calls_left EXCEPT ![p] = @ - 1]
    /\ fs' = files
    /\ hist' = [hist EXCEPT ![p] = Append(@,
                  [dryrun |-> FALSE, kind |-> kind, path |-> None,
                   at |-> "create_archive", output |-> "", emitted |-> "",
                   tmp |-> None, fs0 |-> fs, fs1 |-> files,
                   tools0 |-> <<spack_create, spack_install>>,
                   tools1 |-> <<spack_create, spack_install>>,
                   removed |-> removed])]
    /\ UNCHANGED <<fixed, caches, pc, dryrun, env_file, tmp_file, env_path, out,
                   e_output, emitted, spack_create, spack_install, done_writers,
                   removed, fs0, tools0>>

\* an archive is written next to the temporary files when an environment is complete
CreateArchive_tar(p) ==
    IF \E d \in {ShortPath, FullPath} : is_complete(d, fs)
    THEN archived(p, "returned", fs \cup {<<tmpdir, <<0>>>>})
    ELSE archived(p, "WorkflowError", fs)

\* Env.create_archive, lines 96-104: raises, whatever the state of the disk
CreateArchive(p) == archived(p, "WorkflowError", fs)

\* self == other, lines 198-201
Compare ==
    /\ eq_args # None
    /\ eq_result = None
    /\ eq_result' = <<Env_eq(eq_args[1], eq_args[2])>>
    /\ UNCHANGED <<fs, file_is_local, spack_available, disk_content, real_dir,
                   hash_reads, eq_args, caches, pc, tools, done_writers, removed>>
    /\ UNCHANGED frame

\* a caller reads the hash property of the handle of p, lines 65-77
ReadHash(p) ==
    /\ pc[p] = "idle"
    /\ Len(hash_reads[p]) < MaxHashReads
    /\ hash_cache' = [hash_cache EXCEPT ![p] = hash(p)]
    /\ content_cache' = [content_cache EXCEPT ![p] = content_of(p)]
    /\ hashed_dir' = [hashed_dir EXCEPT ![p] =
                          IF hash_cache[p] = None THEN realpath(env_dir) ELSE @]
    /\ hash_reads' = [hash_reads EXCEPT ![p] = Append(@,
                          [value |-> hash(p), real_dir |-> real_dir,
                           disk_content |-> disk_content])]
    /\ UNCHANGED <<fs, file_is_local, spack_available, disk_content, real_dir, eq_args,
                   eq_result, pc, tools, done_writers, removed>>
    /\ UNCHANGED frame

\* the specification file is edited at its source
ExternalEdit ==
    /\ disk_content = content
    /\ disk_content' = content2
    /\ UNCHANGED <<fs, file_is_local, spack_available, real_dir, hash_reads, eq_args,
                   eq_result, caches, pc, tools, done_writers, removed>>
    /\ UNCHANGED frame

\* the working directory is moved: env_dir resolves to another real path
ExternalMove ==
    /\ real_dir = env_dir
    /\ real_dir' = moved_dir
    /\ UNCHANGED <<fs, file_is_local, spack_available, disk_content, hash_reads,
                   eq_args, eq_result, caches, pc, tools, done_writers, removed>>
    /\ UNCHANGED frame

\* -------------------------------------------------------- specifications

Step(p) ==
    \/ \E d \in BOOLEAN : Start(p, d)
    \/ ResolvePath(p)
    \/ CheckBrokenEnvironment(p)
    \/ ExistsCheck(p)
    \/ Makedirs(p)
    \/ \E ok \in BOOLEAN : TouchStart(p, ok)
    \/ \E ok \in BOOLEAN : CopyFile(p, ok)
    \/ \E rc \in {0, 1}, o \in Outputs : ShellCreate(p, rc, o)
    \/ \E rc \in {0, 1}, o \in Outputs : ShellInstall(p, rc, o)
    \/ \E ok \in BOOLEAN : TouchDone(p, ok)
    \/ RmtreeUnlink(p)
    \/ RmtreeRmdir(p)
    \/ Cleanup(p)

\* one process, which may be interrupted and started again
Next == \E p \in Procs : Step(p) \/ Interrupt(p)

Spec == Init /\ [][Next]_vars

\* two processes sharing env_dir, any interleaving
NextConc == \E p \in Procs : Step(p)

SpecConc == InitConc /\ [][NextConc]_vars

\* one process, and directories deleted from outside between its steps
NextEnv ==
    \/ \E p \in Procs : Step(p)
    \/ \E d \in {ShortPath, FullPath} : ExternalRemove(d)

SpecEnv == InitEnv /\ [][NextEnv]_vars

\* one process calling create() and create_archive() in any order
NextArchive == \E p \in Procs : Step(p) \/ CreateArchive(p)

SpecArchive == InitArchive /\ [][NextArchive]_vars

\* one comparison
NextEq == Compare

SpecEq == InitEq /\ [][NextEq]_vars

\* one process that is never interrupted: every statement of create() and
\* every command it runs returns, so a step that can be taken is taken
SpecLive == InitLive /\ [][NextConc]_vars /\ WF_vars(NextConc)

\* two handles asked for their hash, the specification file edited and the
\* directory moved meanwhile
NextHash ==
    \/ \E p \in Procs : ReadHash(p)
    \/ ExternalEdit
    \/ ExternalMove

SpecHash == InitHash /\ [][NextHash]_vars

\* ------------------------------------------------------------- claims

\* the finished calls of process p, as pairs of successive records
successive(p) == {i \in 1..Len(hist[p]) : i < Len(hist[p])}

\* call hist[p][i] provisioned an absent directory and returned, and the call
\* after it, not a dry run either, ran to its end
provisioned_then_called(p, i) ==
    /\ hist[p][i].kind = "returned"
    /\ ~hist[p][i].dryrun
    /\ is_absent(hist[p][i].path, hist[p][i].fs0)
    /\ ~hist[p][i + 1].dryrun
    /\ hist[p][i + 1].kind # "interrupted"

\* C1: when create(dryrun=False) provisions an absent directory and returns,
\* and create(dryrun=False) is called again, the two calls together ran
\* "spack env create" once and "spack install" once, the second call returns
\* the same path, and the directory with both flags is as the first call left it.
C1_Idempotent ==
    \A p \in Procs : \A i \in successive(p) :
        provisioned_then_called(p, i) =>
            LET a == hist[p][i]
                b == hist[p][i + 1]
            IN  /\ b.kind = "returned"
                /\ b.path = a.path
                /\ b.tools1[1] = a.tools0[1] + 1
                /\ b.tools1[2] = a.tools0[2] + 1
                /\ is_complete(a.path, a.fs1)
                /\ tree(b.path, b.fs1) = tree(a.path, a.fs1)

C1_Witness ==
    \E p \in Procs : \E i \in successive(p) : provisioned_then_called(p, i)

\* a finished call that was not interrupted and found its path broken
found_broken(r) ==
    /\ r.kind # "interrupted"
    /\ is_broken(r.path, r.fs0)

\* C2: a call whose resolved path holds the start flag without the done flag
\* fails with BrokenEnvironment at the broken-environment check (before the
\* existence test), does not return, runs no spack command and leaves the
\* directory as it was.
C2_BrokenNeverReused ==
    \A p \in Procs : \A i \in 1..Len(hist[p]) :
        LET r == hist[p][i]
        IN  found_broken(r) =>
                /\ r.kind = "BrokenEnvironment"
                /\ r.at = "check_broken"
                /\ r.tools1 = r.tools0
                /\ tree(r.path, r.fs1) = tree(r.path, r.fs0)

C2_Witness ==
    \E p \in Procs : \E i \in 1..Len(hist[p]) :
        found_broken(hist[p][i]) /\ hist[p][i].kind = "BrokenEnvironment"

\* C3: when "spack env create" or "spack install" exits non-zero, then once
\* create() has raised CreateSpackEnvironmentException the directory is gone
\* with everything in it, the exception carries the output the tool printed,
\* and the next call finds the path absent, not broken.
C3_RollbackOnToolFailure ==
    \A p \in Procs : \A i \in 1..Len(hist[p]) :
        LET r == hist[p][i]
        IN  r.kind = "CreateSpackEnvironmentException" =>
                /\ is_absent(r.path, r.fs1)
                /\ r.output = r.emitted
                /\ r.output \in Outputs
                /\ i < Len(hist[p]) =>
                       /\ hist[p][i + 1].kind # "BrokenEnvironment"
                       /\ hist[p][i + 1].kind # "interrupted" =>
                              /\ hist[p][i + 1].path = r.path
                              /\ is_absent(r.path, hist[p][i + 1].fs0)

C3_Witness ==
    \E p \in Procs : \E i \in successive(p) :
        /\ hist[p][i].kind = "CreateSpackEnvironmentException"
        /\ hist[p][i].tools1[2] > hist[p][i].tools0[2]
        /\ hist[p][i + 1].kind = "returned"

\* C4: a call that failed in a step of the provisioning sequence (an OSError
\* of a touch or of the copy, or a failed spack command) leaves no directory.
C4_AnyFailureRemovesDirectory ==
    \A p \in Procs : \A i \in 1..Len(hist[p]) :
        LET r == hist[p][i]
        IN  r.kind \in {"CreateSpackEnvironmentException", "OSError"} =>
                is_absent(r.path, r.fs1)

\* no call has failed or is rolling back
no_failure ==
    /\ \A p \in Procs : pc[p] \notin {"rmtree", "rmdir"}
    /\ \A p \in Procs : \A i \in 1..Len(hist[p]) : hist[p][i].kind = "returned"

\* C5: when processes sharing env_dir call create(dryrun=False) for the same
\* hash in any interleaving and no call fails, "spack env create" runs at most
\* once in total and at most one process writes the done flag.
C5_AtMostOneProvisioning ==
    no_failure => spack_create <= 1 /\ Cardinality(done_writers) <= 1

\* C6: once a directory holds the done flag (with the start flag), no step of
\* any call removes the directory or anything in it.
C6_CompleteNeverMutated ==
    [][\A d \in {ShortPath, FullPath} :
          is_complete(d, fs) => tree(d, fs) \subseteq tree(d, fs')]_vars

\* the steps 148-177 of create(): the start flag is written, the done flag not yet
InProgress == {"copyfile", "spack_create", "spack_install", "touch_done"}

interrupted_in_progress(r) == r.kind = "interrupted" /\ r.at \in InProgress

\* C7: a process interrupted after it wrote the start flag and before it wrote
\* the done flag leaves the directory broken; the directory is broken ever
\* after, and every later call that reaches the broken-environment check
\* fails there with BrokenEnvironment.
C7_CrashLeavesBroken ==
    \A p \in Procs : \A i \in 1..Len(hist[p]) :
        interrupted_in_progress(hist[p][i]) =>
            /\ is_broken(hist[p][i].path, hist[p][i].fs1)
            /\ is_broken(hist[p][i].path, fs)
            /\ \A j \in (i + 1)..Len(hist[p]) :
                   \/ hist[p][j].kind = "BrokenEnvironment"
                        /\ hist[p][j].path = hist[p][i].path
                   \/ hist[p][j].kind = "interrupted"
                        /\ hist[p][j].at \in {"path", "check_broken"}

C7_Witness ==
    \E p \in Procs :
        /\ Len(hist[p]) = 3
        /\ interrupted_in_progress(hist[p][1])
        /\ hist[p][2].kind = "BrokenEnvironment"
        /\ hist[p][3].kind = "BrokenEnvironment"

\* the paths below env_dir: the environment directories and their files
env_tree(files) == {f \in files : f[1] = env_dir}

\* C8: a call with dryrun=True, whatever the state of its path, leaves the
\* environment directories, the flags and spack.yaml as they were and runs no
\* spack command.
C8_DryRunCreatesNothing ==
    \A p \in Procs : \A i \in 1..Len(hist[p]) :
        hist[p][i].dryrun =>
            /\ env_tree(hist[p][i].fs1) = env_tree(hist[p][i].fs0)
            /\ hist[p][i].tools1 = hist[p][i].tools0

C8_Witness ==
    \E p \in Procs : \E i \in 1..Len(hist[p]) :
        /\ hist[p][i].dryrun
        /\ hist[p][i].kind = "returned"
        /\ is_absent(hist[p][i].path, hist[p][i].fs0)

\* C9: a call with dryrun=True on a path that does not exist returns the path
\* and leaves the whole filesystem, the temporary directory included, as it
\* was before the call.
C9_DryRunAbsentTouchesNothing ==
    \A p \in Procs : \A i \in 1..Len(hist[p]) :
        LET r == hist[p][i]
        IN  (r.dryrun /\ r.kind = "returned" /\ is_absent(r.path, r.fs0)) =>
                r.fs1 = r.fs0

\* the two directories of the handle, written out
full_dir == <<env_dir, FullHash>>
short_dir == <<env_dir, [i \in 1..8 |-> FullHash[i]]>>

AfterMakedirs ==
    {"touch_start", "copyfile", "spack_create", "spack_install", "touch_done",
     "rmtree", "rmdir"}

\* C11: when the spack executable cannot be found, create(dryrun=False) on an
\* absent path fails with the tool-not-found error before it creates the
\* directory: no process is ever past os.makedirs, and every such call that
\* ran to its end ended with that error.
C11_ToolCheckedBeforeMutation ==
    ~spack_available =>
        \A p \in Procs :
            /\ pc[p] \notin AfterMakedirs
            /\ \A i \in 1..Len(hist[p]) :
                   LET r == hist[p][i]
                   IN  (r.kind # "interrupted" /\ ~r.dryrun /\ is_absent(r.path, r.fs0))
                           => r.kind = "ToolNotFound"

\* C15: the start flag is written before spack.yaml, spack.yaml before
\* "spack env create", "spack install" runs only after "spack env create"
\* succeeded, the done flag is written only after both succeeded; with one
\* process, a directory that holds the done flag holds the start flag and
\* spack.yaml.
C15_StepOrder ==
    /\ \A p \in Procs :
          /\ pc[p] \in {"copyfile", "spack_create", "spack_install", "touch_done"} =>
                 exists(join(env_path[p], START), fs)
          /\ pc[p] = "copyfile" =>
                 /\ ~exists(join(env_path[p], YAML), fs)
                 /\ <<spack_create, spack_install>> = tools0[p]
          /\ pc[p] \in {"spack_create", "spack_install", "touch_done"} =>
                 exists(join(env_path[p], YAML), fs)
          /\ pc[p] = "spack_create" => <<spack_create, spack_install>> = tools0[p]
          /\ pc[p] = "spack_install" =>
                 /\ <<spack_create, spack_install>> = <<tools0[p][1] + 1, tools0[p][2]>>
                 /\ out[p] = emitted[p]
                 /\ e_output[p] = ""
          /\ pc[p] = "touch_done" =>
                 /\ <<spack_create, spack_install>> = <<tools0[p][1] + 1, tools0[p][2] + 1>>
                 /\ out[p] = emitted[p]
                 /\ e_output[p] = ""
          /\ pc[p] \in {"copyfile", "spack_create", "spack_install", "touch_done"} =>
                 ~exists(join(env_path[p], DONE), fs)
    /\ \A d \in {ShortPath, FullPath} :
          exists(join(d, DONE), fs) =>
              exists(join(d, START), fs) /\ exists(join(d, YAML), fs)

\* a process wrote the done flag and is about to return
C15_Witness ==
    \E p \in Procs :
        /\ pc[p] = "cleanup"
        /\ p \in done_writers
        /\ is_absent(env_path[p], fs0[p])
        /\ is_complete(env_path[p], fs)

\* C16: whenever create(dryrun=False) returns a path, the directory at that
\* path exists and holds the start flag and the done flag.
C16_ReturnedPathComplete ==
    \A p \in Procs : \A i \in 1..Len(hist[p]) :
        LET r == hist[p][i]
        IN  (r.kind = "returned" /\ ~r.dryrun) => is_complete(r.path, r.fs1)

C18_TmpFileRemoved ==
    \A p \in Procs : \A i \in 1..Len(hist[p]) :
        LET r == hist[p][i]
        IN  (/\ r.tmp # None
             /\ ~r.dryrun
             /\ r.kind \in {"returned", "CreateSpackEnvironmentException"})
                => ~exists(r.tmp, r.fs1)

\* the i-th call of p was a call of create_archive()
is_archive_call(p, i) == hist[p][i].at = "create_archive"

\* C13: every call of create_archive(), on an absent, a broken or a complete
\* environment, ends with WorkflowError, has invoked neither spack command
\* and has left the file system as it found it.
C13_ArchiveAlwaysFails ==
    \A p \in Procs : \A i \in 1..Len(hist[p]) :
        is_archive_call(p, i) =>
            /\ hist[p][i].kind = "WorkflowError"
            /\ hist[p][i].fs1 = hist[p][i].fs0
            /\ hist[p][i].tools1 = hist[p][i].tools0

\* create() provisioned the environment, then create_archive() was called on it
C13_Witness ==
    \E p \in Procs :
        /\ Len(hist[p]) = 2
        /\ hist[p][1].kind = "returned" /\ ~hist[p][1].dryrun
        /\ hist[p][1].tools1 # hist[p][1].tools0
        /\ is_archive_call(p, 2)
        /\ is_complete(hist[p][1].path, hist[p][2].fs0)

\* C14: a handle equals a value exactly when the value is a handle of the
\* same specification source: handles of one source are equal whatever their
\* content, env_dir and hash, handles of different sources are unequal even
\* with the same content and hash, and no value of another class is equal.
C14_EqualityBySource ==
    eq_result # None =>
        LET a == eq_args[1]
            b == eq_args[2]
        IN  /\ (isinstance_Env(b) /\ a.file = b.file) => eq_result = <<TRUE>>
            /\ (isinstance_Env(b) /\ a.file # b.file) => eq_result = <<FALSE>>
            /\ ~isinstance_Env(b) => eq_result = <<FALSE>>

\* two handles of different sources with the same content, directory and
\* hash were compared and found unequal
C14_Witness ==
    /\ eq_result = <<FALSE>>
    /\ isinstance_Env(eq_args[2])
    /\ eq_args[1].file # eq_args[2].file
    /\ eq_args[1].content = eq_args[2].content
    /\ eq_args[1].env_dir = eq_args[2].env_dir
    /\ hash_of(eq_args[1]) = hash_of(eq_args[2])

\* every call of create() ends
terminates == \A p \in Procs : (pc[p] # "idle") ~> (pc[p] = "idle")

\* the directory of an ended call of create(dryrun=False): complete when it
\* returned a path, absent when it raised CreateSpackEnvironmentException
final_state ==
    \A p \in Procs : \A i \in 1..Len(hist[p]) :
        LET r == hist[p][i]
        IN  ~r.dryrun =>
                /\ r.kind = "returned" => is_complete(r.path, r.fs1)
                /\ r.kind = "CreateSpackEnvironmentException" => is_absent(r.path, r.fs1)

\* C19: with every step returning and no interrupt, every call of
\* create(dryrun=False) ends, and when it has ended its directory is complete
\* (a path was returned) or absent (CreateSpackEnvironmentException was
\* raised); so one process that starts on an absent directory and whose two
\* spack commands succeed ends with a complete directory.
C19_ProgressToFinalState == terminates /\ []final_state

\* both handles have read their hash
both_hashed(p, q) == hash_cache[p] # None /\ hash_cache[q] # None

\* C12: two handles that hashed the same real path of env_dir and the same
\* content have the same hash, handles that differ in either have different
\* hashes; and every read of a handle's hash returns what its first read
\* returned, whatever happened to the file and the directory meanwhile.
C12_HashDeterministicAndFixed ==
    /\ \A p \in Procs, q \in Procs :
          both_hashed(p, q) =>
              ((hashed_dir[p] = hashed_dir[q] /\ content_cache[p] = content_cache[q])
                  <=> hash_cache[p] = hash_cache[q])
    /\ \A p \in Procs : \A i \in 1..Len(hash_reads[p]) :
          /\ hash_reads[p][i].value = hash_reads[p][1].value
          /\ Len(hash_reads[p][i].value) = DigestLen

\* a handle read its hash before and after the file was edited and the
\* directory moved, and the other handle has another hash
C12_Witness ==
    \E p \in Procs : \E q \in Procs :
        /\ Len(hash_reads[p]) = 2
        /\ hash_reads[p][1].disk_content = content
        /\ hash_reads[p][1].real_dir = env_dir
        /\ hash_reads[p][2].disk_content = content2
        /\ hash_reads[p][2].real_dir = moved_dir
        /\ both_hashed(p, q)
        /\ hash_cache[q] # hash_cache[p]

====
